---- MODULE Spec2Model ----
(***************************************************************************)
(* AudioMoth USB-HID configuration tool (audiomoth/audiomoth.py and        *)
(* audiomoth/utils.py): device lookup, the 18-byte configuration record,   *)
(* parameter validation, and the get / set / persist / restore commands.   *)
(* A behaviour is one command-line invocation (main): one command, run     *)
(* from "idle" to "done", against the devices attached at the time.        *)
(***************************************************************************)
EXTENDS Integers, Sequences, FiniteSets, TLC

VARIABLES
    enumeration,    \* what hid.enumerate() returns: a sequence of descriptors
    vol,            \* device side: serial -> volatile configuration
    per,            \* device side: serial -> persistent configuration
    pc,             \* position of the running invocation
    cmd,            \* the command being run: "moths", "get", "set", "restore", "persist"
    serial_number,  \* the serial_number argument (NoSerial when not given)
    ov,             \* set_config's keyword arguments that are not None: name -> value
    audio_moth,     \* audio_moth of set_config / restore_config / persist_config
    gc_moth,        \* audio_moth of get_config
    old_cfg,        \* old_cfg of set_config (the AudioMothConfig get_config returned)
    idx,            \* position of set_config's loop in ParamOrder
    sessions,       \* serials of the hid.Device handles currently open
    read_data,      \* read_data of get_config
    log,            \* transport events of the running invocation, in order
    outcome,        \* "none" while running, "ok", or the exception that ended it
    returned,       \* the AudioMothConfig returned to the caller (NoCfg when none)
    found,          \* the descriptor get_audiomoth_device returned to the caller
    probe           \* last direct application of _validate_parameter / the codec

vars == <<enumeration, vol, per, pc, cmd, serial_number, ov, audio_moth,
          gc_moth, old_cfg, idx, sessions, read_data, log, outcome, returned,
          found, probe>>

(***************************************************************************)
(* Bounds of the model                                                     *)
(***************************************************************************)
MaxDevices == 2     \* descriptors in one enumeration
MaxOverrides == 2   \* keyword arguments given to one set_config call

(***************************************************************************)
(* Message tags, utils.py                                                  *)
(***************************************************************************)
\* variant: the configuration record is sent under the READ tag
HID_CONFIGURATION_MESSAGE_AsRead == <<5>>

HID_CONFIGURATION_MESSAGE == <<1>>
HID_RESTORE_MESSAGE == <<4>>
HID_READ_MESSAGE == <<5>>
HID_PERSIST_MESSAGE == <<6>>

(***************************************************************************)
(* AudioMothConfig and the struct format "<BLBBBBLBHH"                     *)
(***************************************************************************)
FieldOrder == <<"time", "gain", "clock_divider", "acquisition_cycles",
                "oversamplerate", "samplerate", "samplerate_divider",
                "lower_filter_freq", "higher_filter_freq">>

Fields == {FieldOrder[i] : i \in 1..Len(FieldOrder)}

\* the dataclass defaults
DefaultCfg == [time |-> 0, gain |-> 2, clock_divider |-> 4, acquisition_cycles |-> 16,
               oversamplerate |-> 1, samplerate |-> 384000, samplerate_divider |-> 1,
               lower_filter_freq |-> 0, higher_filter_freq |-> 0]

\* "no AudioMothConfig": no field of a decoded record is negative
NoCfg == [f \in Fields |-> -1]

\* byte widths of "<BLBBBBLBHH" (standard sizes, little-endian, no padding),
\* as written in set_config's struct.pack
PackFmt == <<1, 4, 1, 1, 1, 1, 4, 1, 2, 2>>

\* variant: "<BLBBBBBLHH", samplerate and samplerate_divider exchanged
UnpackFmt_Swapped == <<1, 4, 1, 1, 1, 1, 1, 4, 2, 2>>

\* the same format string as written in get_config's struct.unpack
UnpackFmt == <<1, 4, 1, 1, 1, 1, 4, 1, 2, 2>>

RECURSIVE Pow256(_)
Pow256(n) == IF n = 0 THEN 1 ELSE 256 * Pow256(n - 1)

\* little-endian bytes of v in n bytes
LE(v, n) == [i \in 1..n |-> (v \div Pow256(i - 1)) % 256]

RECURSIVE FromLE(_)
FromLE(b) == IF b = <<>> THEN 0 ELSE Head(b) + 256 * FromLE(Tail(b))

RECURSIVE StructCalcsize(_)
StructCalcsize(fmt) == IF fmt = <<>> THEN 0 ELSE Head(fmt) + StructCalcsize(Tail(fmt))

\* struct.pack raises struct.error unless every value fits its unsigned width:
\* 0 <= v < 256^n, written so that 256^4 is never computed
StructPackOk(fmt, vals) ==
    /\ Len(vals) = Len(fmt)
    /\ \A i \in 1..Len(fmt) : vals[i] >= 0 /\ vals[i] \div Pow256(fmt[i] - 1) < 256

RECURSIVE StructPack(_, _)
StructPack(fmt, vals) ==
    IF fmt = <<>> THEN <<>>
    ELSE LE(Head(vals), Head(fmt)) \o StructPack(Tail(fmt), Tail(vals))

\* struct.unpack raises struct.error unless the buffer has exactly calcsize bytes
StructUnpackOk(fmt, data) == Len(data) = StructCalcsize(fmt)

RECURSIVE StructUnpack(_, _)
StructUnpack(fmt, data) ==
    IF fmt = <<>> THEN <<>>
    ELSE <<FromLE(SubSeq(data, 1, Head(fmt)))>>
         \o StructUnpack(Tail(fmt), SubSeq(data, Head(fmt) + 1, Len(data)))

\* the argument list of struct.pack in set_config
PackArgs(tag, c) == <<tag, c.time, c.gain, c.clock_divider, c.acquisition_cycles,
                      c.oversamplerate, c.samplerate, c.samplerate_divider,
                      c.lower_filter_freq, c.higher_filter_freq>>

\* the AudioMothConfig get_config builds from unpacked_data[1..9]
\* (1-based here: u[1] is the tag)
ConfigOf(u) == [time |-> u[2], gain |-> u[3], clock_divider |-> u[4],
                acquisition_cycles |-> u[5], oversamplerate |-> u[6],
                samplerate |-> u[7], samplerate_divider |-> u[8],
                lower_filter_freq |-> u[9], higher_filter_freq |-> u[10]]

(***************************************************************************)
(* _validate_parameter, utils.py                                           *)
(***************************************************************************)
ValidGains == {0, 1, 2, 3, 4}

ValidSamplerates == {8000, 16000, 32000, 48000, 96000, 192000, 250000, 384000}

\* int(sr / 2): true division, then truncation toward zero
IntHalf(sr) == IF sr >= 0 THEN sr \div 2 ELSE -((-sr) \div 2)

\* variant: no case for "gain"
ValidateParameter_GainUnchecked(parameter, value, sr) ==
    CASE parameter = "samplerate" -> value \in ValidSamplerates
      [] parameter \in {"lower_filter_freq", "higher_filter_freq"} ->
             ~(value % 100 # 0 \/ value > IntHalf(sr))
      [] OTHER -> TRUE

\* variant: the band pass filters are compared with sr, not with half of it
ValidateParameter_NoHalf(parameter, value, sr) ==
    CASE parameter = "gain" -> value \in ValidGains
      [] parameter = "samplerate" -> value \in ValidSamplerates
      [] parameter \in {"lower_filter_freq", "higher_filter_freq"} ->
             ~(value % 100 # 0 \/ value > sr)
      [] OTHER -> TRUE

\* variant: the filter case names "lower_filter_freq" only
ValidateParameter_OnlyLower(parameter, value, sr) ==
    CASE parameter = "gain" -> value \in ValidGains
      [] parameter = "samplerate" -> value \in ValidSamplerates
      [] parameter \in {"lower_filter_freq"} ->
             ~(value % 100 # 0 \/ value > IntHalf(sr))
      [] OTHER -> TRUE

\* TRUE when _validate_parameter returns, FALSE when it raises ValueError
\* (every value of the model is an int, so the isinstance test passes)
ValidateParameter(parameter, value, sr) ==
    CASE parameter = "gain" -> value \in ValidGains
      [] parameter = "samplerate" -> value \in ValidSamplerates
      [] parameter \in {"lower_filter_freq", "higher_filter_freq"} ->
             ~(value % 100 # 0 \/ value > IntHalf(sr))
      [] OTHER -> TRUE

(***************************************************************************)
(* Descriptors and get_audiomoth_device, audiomoth.py                      *)
(***************************************************************************)
NoSerial == "<none>"

MothA == [product_string |-> "AudioMoth", serial_number |-> "A"]
MothB == [product_string |-> "AudioMoth", serial_number |-> "B"]
OtherX == [product_string |-> "Keyboard", serial_number |-> "X"]
NoDevice == [product_string |-> "", serial_number |-> NoSerial]

Descriptors == {MothA, MothB, OtherX}

Serials == {d.serial_number : d \in Descriptors}

\* "AudioMoth" in device["product_string"]
IsAudioMoth(d) == d.product_string \in {"AudioMoth"}

RECURSIVE FirstWithSerial(_, _)
\* next((device for device in devices if device["serial_number"] == serial), None)
FirstWithSerial(devices, serial) ==
    IF devices = <<>> THEN NoDevice
    ELSE IF Head(devices).serial_number = serial THEN Head(devices)
    ELSE FirstWithSerial(Tail(devices), serial)

\* variant: a serial that matches no AudioMoth is not an error
GetAudiomothDevice_NoSerialCheck(enum, serial) ==
    LET devices == SelectSeq(enum, IsAudioMoth) IN
    IF Len(devices) = 0 THEN [err |-> "NoAudioMoth", dev |-> NoDevice]
    ELSE [err |-> "none", dev |-> devices[1]]

\* variant: devices[-1] is returned
GetAudiomothDevice_Last(enum, serial) ==
    LET devices == SelectSeq(enum, IsAudioMoth) IN
    IF Len(devices) = 0 THEN [err |-> "NoAudioMoth", dev |-> NoDevice]
    ELSE IF serial # NoSerial /\ FirstWithSerial(devices, serial) = NoDevice
         THEN [err |-> "NoSuchSerial", dev |-> NoDevice]
    ELSE [err |-> "none", dev |-> devices[Len(devices)]]

\* get_audiomoth_device(serial) on the enumeration enum: the descriptor it
\* returns, or the RuntimeError it raises
GetAudiomothDevice(enum, serial) ==
    LET devices == SelectSeq(enum, IsAudioMoth) IN
    IF Len(devices) = 0 THEN [err |-> "NoAudioMoth", dev |-> NoDevice]
    ELSE IF serial # NoSerial /\ FirstWithSerial(devices, serial) = NoDevice
         THEN [err |-> "NoSuchSerial", dev |-> NoDevice]
    ELSE [err |-> "none", dev |-> devices[1]]

(***************************************************************************)
(* The device end of the transport                                         *)
(***************************************************************************)
\* the wire layout the device uses:
\* [tag:u8][time:u32][gain:u8][clock_divider:u8][acquisition_cycles:u8]
\* [oversample_rate:u8][sample_rate:u32][sample_rate_divider:u8][lower:u16][higher:u16]
WireRecord(data) ==
    [time |-> FromLE(SubSeq(data, 2, 5)), gain |-> data[6], clock_divider |-> data[7],
     acquisition_cycles |-> data[8], oversamplerate |-> data[9],
     samplerate |-> FromLE(SubSeq(data, 10, 13)), samplerate_divider |-> data[14],
     lower_filter_freq |-> FromLE(SubSeq(data, 15, 16)),
     higher_filter_freq |-> FromLE(SubSeq(data, 17, 18))]

WireBytes(tag, c) ==
    <<tag>> \o LE(c.time, 4) \o <<c.gain, c.clock_divider, c.acquisition_cycles,
    c.oversamplerate>> \o LE(c.samplerate, 4) \o <<c.samplerate_divider>>
    \o LE(c.lower_filter_freq, 2) \o LE(c.higher_filter_freq, 2)

\* what a device does with a message written to it: <<volatile, persistent>>.
\* CONFIGURATION (0x01 + record) sets the volatile configuration, PERSIST (0x06)
\* copies volatile to persistent, RESTORE (0x04) copies persistent to volatile.
DeviceReceive(v, p, data) ==
    IF Len(data) = 18 /\ data[1] = 1 THEN <<WireRecord(data), p>>
    ELSE IF data = <<6>> THEN <<v, v>>
    ELSE IF data = <<4>> THEN <<p, p>>
    ELSE <<v, p>>

\* the answers a device may give to a READ: its volatile configuration under
\* the READ tag (0x05), the same under another tag, or a short report
DeviceResponses(v) ==
    { WireBytes(5, v), WireBytes(0, v), SubSeq(WireBytes(5, v), 1, 17) }

(***************************************************************************)
(* Inputs of the model                                                     *)
(***************************************************************************)
MothSerials == {d.serial_number : d \in {x \in Descriptors : IsAudioMoth(x)}}

\* enumerations: up to MaxDevices distinct descriptors, in any order
Enumerations ==
    UNION { { e \in [1..n -> Descriptors] : \A i, j \in 1..n : e[i] = e[j] => i = j }
            : n \in 0..MaxDevices }

\* configurations a device may hold when the tool is started
InitConfigs ==
    { DefaultCfg,
      [DefaultCfg EXCEPT !.time = 1700000000, !.gain = 1, !.samplerate = 8000,
                         !.lower_filter_freq = 100, !.higher_filter_freq = 4000],
      [DefaultCfg EXCEPT !.time = 65536, !.higher_filter_freq = 60000] }

\* variant: set_config has a time parameter, ahead of the others
ParamOrder_WithTime ==
    <<"time", "gain", "clock_divider", "acquisition_cycles", "oversamplerate",
      "samplerate", "samplerate_divider", "lower_filter_freq",
      "higher_filter_freq">>

\* the keyword arguments of set_config, in the order of locals()
ParamOrder == <<"gain", "clock_divider", "acquisition_cycles", "oversamplerate",
                "samplerate", "samplerate_divider", "lower_filter_freq",
                "higher_filter_freq">>

Params == {ParamOrder[i] : i \in 1..Len(ParamOrder)}

\* values a caller passes for each field of the record it wants to set
OverrideValues ==
    [time |-> {5}, gain |-> {3, 7}, clock_divider |-> {8, 256}, acquisition_cycles |-> {32},
     oversamplerate |-> {2}, samplerate |-> {8000, 48000, 9000},
     samplerate_divider |-> {2}, lower_filter_freq |-> {0, 100000},
     higher_filter_freq |-> {4500, -100}]

\* the calls of set_config: at most MaxOverrides keyword arguments that are
\* not None, named after fields of the record
Overrides ==
    UNION { { f \in [D -> UNION {OverrideValues[p] : p \in Fields}] :
                \A p \in D : f[p] \in OverrideValues[p] }
            : D \in {X \in SUBSET Fields : Cardinality(X) <= MaxOverrides} }

SerialArgs == Serials \cup {NoSerial}

Commands == {"moths", "get", "set", "restore", "persist"}

(***************************************************************************)
(* Initial state                                                           *)
(***************************************************************************)
Init ==
    /\ enumeration \in Enumerations
    /\ \E c \in InitConfigs :
           vol = [s \in MothSerials |-> IF s = "A" THEN c ELSE DefaultCfg]
    /\ per \in {vol, [s \in MothSerials |-> DefaultCfg]}
    /\ pc = "idle"
    /\ cmd = "none"
    /\ serial_number = NoSerial
    /\ ov = <<>>
    /\ audio_moth = NoDevice
    /\ gc_moth = NoDevice
    /\ old_cfg = NoCfg
    /\ idx = 1
    /\ sessions = {}
    /\ read_data = <<>>
    /\ log = <<>>
    /\ outcome = "none"
    /\ returned = NoCfg
    /\ found = NoDevice
    /\ probe = [kind |-> "none"]

(***************************************************************************)
(* Transport events                                                        *)
(***************************************************************************)
Event(e, dev, data) == [ev |-> e, dev |-> dev, data |-> data]

\* leaving a "with hid.Device(...)" block, by return or by exception
CloseSession(dev) ==
    /\ sessions' = sessions \ {dev}
    /\ log' = Append(log, Event("close", dev, <<>>))

\* the invocation ends: o is "ok" or the exception raised
Finish(o) ==
    /\ outcome' = o
    /\ pc' = "done"

\* device.write(data) on the open handle of dev
DeviceWrite(dev, data) ==
    LET r == DeviceReceive(vol[dev], per[dev], data) IN
    /\ vol' = [vol EXCEPT ![dev] = r[1]]
    /\ per' = [per EXCEPT ![dev] = r[2]]

(***************************************************************************)
(* main: one command per invocation                                        *)
(***************************************************************************)
FirstLabel(c) ==
    CASE c = "moths" -> "m_locate"
      [] c = "get" -> "gc_locate"
      [] c = "set" -> "sc_locate"
      [] OTHER -> "cm_locate"

\* main runs one command, its arguments drawn from C, S and O.  A keyword
\* that set_config does not have is refused when the call is bound (TypeError;
\* on the command line the parser refuses the unknown option): nothing of the
\* function runs.
Invoke(C, S, O) ==
    /\ \E c \in C, s \in S, o \in O :
        /\ (c # "set" => o = <<>>)
        /\ cmd' = c
        /\ serial_number' = s
        /\ ov' = o
        /\ IF DOMAIN o \subseteq Params
           THEN pc' = FirstLabel(c) /\ outcome' = "none"
           ELSE pc' = "done" /\ outcome' = "TypeError"
    /\ audio_moth' = NoDevice
    /\ gc_moth' = NoDevice
    /\ old_cfg' = NoCfg
    /\ idx' = 1
    /\ read_data' = <<>>
    /\ log' = <<>>
    /\ returned' = NoCfg
    /\ found' = NoDevice
    /\ UNCHANGED <<enumeration, vol, per, sessions, probe>>

Start ==
    /\ pc = "idle"
    /\ Invoke(Commands, SerialArgs, Overrides)

\* "moths": get_audiomoth_device(serial_number=args.serial_number)
MothsLocate ==
    /\ pc = "m_locate"
    /\ LET r == GetAudiomothDevice(enumeration, serial_number) IN
        /\ found' = r.dev
        /\ Finish(IF r.err = "none" THEN "ok" ELSE r.err)
    /\ UNCHANGED <<enumeration, vol, per, cmd, serial_number, ov, audio_moth,
                   gc_moth, old_cfg, idx, sessions, read_data, log, returned, probe>>

(***************************************************************************)
(* get_config (also the first half of set_config)                          *)
(***************************************************************************)
\* audio_moth = get_audiomoth_device(serial_number)
GcLocate ==
    /\ pc = "gc_locate"
    /\ LET r == GetAudiomothDevice(enumeration, serial_number) IN
        IF r.err # "none"
        THEN /\ Finish(r.err)
             /\ UNCHANGED gc_moth
        ELSE /\ gc_moth' = r.dev
             /\ pc' = "gc_open"
             /\ UNCHANGED outcome
    /\ UNCHANGED <<enumeration, vol, per, cmd, serial_number, ov, audio_moth,
                   old_cfg, idx, sessions, read_data, log, returned, found, probe>>

\* with hid.Device(..., serial=audio_moth["serial_number"]) as device
GcOpen ==
    /\ pc = "gc_open"
    /\ sessions' = sessions \cup {gc_moth.serial_number}
    /\ log' = Append(log, Event("open", gc_moth.serial_number, <<>>))
    /\ pc' = "gc_write"
    /\ UNCHANGED <<enumeration, vol, per, cmd, serial_number, ov, audio_moth,
                   gc_moth, old_cfg, idx, read_data, outcome, returned, found, probe>>

\* device.write(HID_READ_MESSAGE)
GcWrite ==
    /\ pc = "gc_write"
    /\ log' = Append(log, Event("write", gc_moth.serial_number, HID_READ_MESSAGE))
    /\ DeviceWrite(gc_moth.serial_number, HID_READ_MESSAGE)
    /\ pc' = "gc_read"
    /\ UNCHANGED <<enumeration, cmd, serial_number, ov, audio_moth, gc_moth,
                   old_cfg, idx, sessions, read_data, outcome, returned, found, probe>>

\* read_data = device.read(18)
GcRead ==
    /\ pc = "gc_read"
    /\ \E resp \in DeviceResponses(vol[gc_moth.serial_number]) :
        /\ read_data' = resp
        /\ log' = Append(log, Event("read", gc_moth.serial_number, resp))
    /\ pc' = "gc_unpack"
    /\ UNCHANGED <<enumeration, vol, per, cmd, serial_number, ov, audio_moth,
                   gc_moth, old_cfg, idx, sessions, outcome, returned, found, probe>>

\* variant: the tag of the response is not tested
GetConfigResult_NoTagTest(data) ==
    IF ~StructUnpackOk(UnpackFmt, data) THEN [err |-> "StructError", cfg |-> NoCfg]
    ELSE [err |-> "none", cfg |-> ConfigOf(StructUnpack(UnpackFmt, data))]

\* what get_config does with read_data: the exception it raises, or the
\* AudioMothConfig it returns
GetConfigResult(data) ==
    IF ~StructUnpackOk(UnpackFmt, data) THEN [err |-> "StructError", cfg |-> NoCfg]
    ELSE LET unpacked_data == StructUnpack(UnpackFmt, data) IN
         IF unpacked_data[1] # HID_READ_MESSAGE[1]
         THEN [err |-> "ReadFailed", cfg |-> NoCfg]
         ELSE [err |-> "none", cfg |-> ConfigOf(unpacked_data)]

\* struct.unpack, the tag test, and the return or raise that leaves the with block
GcUnpack ==
    /\ pc = "gc_unpack"
    /\ CloseSession(gc_moth.serial_number)
    /\ LET r == GetConfigResult(read_data) IN
        IF r.err # "none"
        THEN /\ Finish(r.err)
             /\ UNCHANGED <<old_cfg, returned>>
        ELSE IF cmd = "get"
        THEN /\ returned' = r.cfg
             /\ Finish("ok")
             /\ UNCHANGED old_cfg
        ELSE /\ old_cfg' = r.cfg
             /\ pc' = "sc_loop"
             /\ UNCHANGED <<outcome, returned>>
    /\ UNCHANGED <<enumeration, vol, per, cmd, serial_number, ov, audio_moth,
                   gc_moth, idx, read_data, found, probe>>

(***************************************************************************)
(* set_config                                                              *)
(***************************************************************************)
\* audio_moth = get_audiomoth_device(serial_number); then old_cfg = get_config(...)
ScLocate ==
    /\ pc = "sc_locate"
    /\ LET r == GetAudiomothDevice(enumeration, serial_number) IN
        IF r.err # "none"
        THEN /\ Finish(r.err)
             /\ UNCHANGED audio_moth
        ELSE /\ audio_moth' = r.dev
             /\ pc' = "gc_locate"
             /\ UNCHANGED outcome
    /\ UNCHANGED <<enumeration, vol, per, cmd, serial_number, ov, gc_moth,
                   old_cfg, idx, sessions, read_data, log, returned, found, probe>>

\* variant: the ValueError is swallowed, the value is set all the same
ApplyOverride_Swallow(cfg, param, value, sr) ==
    [err |-> "none", cfg |-> [cfg EXCEPT ![param] = value]]

\* variant: the value is validated but never set
ApplyOverride_NoSet(cfg, param, value, sr) ==
    IF ~ValidateParameter(param, value, sr)
    THEN [err |-> "ValueError", cfg |-> cfg]
    ELSE [err |-> "none", cfg |-> cfg]

\* the body of the loop for one value that is not None: _validate_parameter
\* (its ValueError is raised again), then setattr(old_cfg, param, value)
ApplyOverride(cfg, param, value, sr) ==
    IF ~ValidateParameter(param, value, sr)
    THEN [err |-> "ValueError", cfg |-> cfg]
    ELSE [err |-> "none", cfg |-> [cfg EXCEPT ![param] = value]]

\* variant: the loop stops one parameter short
PresentFrom_SkipsLast(o, i) ==
    {j \in i..(Len(ParamOrder) - 1) : ParamOrder[j] \in DOMAIN o}

\* positions of the loop, from i on, whose value is not None
PresentFrom(o, i) == {j \in i..Len(ParamOrder) : ParamOrder[j] \in DOMAIN o}

\* sr = samplerate if samplerate is not None else old_cfg.samplerate
EffectiveSr(o, cfg) ==
    IF "samplerate" \in DOMAIN o THEN o["samplerate"] ELSE cfg.samplerate

\* one iteration of "for param, value in locals().items()" for a value that
\* is not None: _validate_parameter, then setattr(old_cfg, param, value)
ScLoop ==
    /\ pc = "sc_loop"
    /\ PresentFrom(ov, idx) # {}
    /\ LET j == CHOOSE k \in PresentFrom(ov, idx) : \A m \in PresentFrom(ov, idx) : k <= m
           param == ParamOrder[j]
           value == ov[param]
           sr == EffectiveSr(ov, old_cfg)
           r == ApplyOverride(old_cfg, param, value, sr)
       IN IF r.err # "none"
          THEN /\ Finish(r.err)
               /\ UNCHANGED <<old_cfg, idx>>
          ELSE /\ old_cfg' = r.cfg
               /\ idx' = j + 1
               /\ UNCHANGED <<pc, outcome>>
    /\ UNCHANGED <<enumeration, vol, per, cmd, serial_number, ov, audio_moth,
                   gc_moth, sessions, read_data, log, returned, found, probe>>

\* the loop is exhausted: with hid.Device(..., serial=audio_moth["serial_number"])
ScOpen ==
    /\ pc = "sc_loop"
    /\ PresentFrom(ov, idx) = {}
    /\ sessions' = sessions \cup {audio_moth.serial_number}
    /\ log' = Append(log, Event("open", audio_moth.serial_number, <<>>))
    /\ pc' = "sc_pack"
    /\ UNCHANGED <<enumeration, vol, per, cmd, serial_number, ov, audio_moth,
                   gc_moth, old_cfg, idx, read_data, outcome, returned, found, probe>>

\* data = struct.pack("<BLBBBBLBHH", HID_CONFIGURATION_MESSAGE[0], ...);
\* device.write(data).  struct.error leaves the with block.
ScPackWrite ==
    /\ pc = "sc_pack"
    /\ LET args == PackArgs(HID_CONFIGURATION_MESSAGE[1], old_cfg)
           dev == audio_moth.serial_number
       IN IF ~StructPackOk(PackFmt, args)
          THEN /\ CloseSession(dev)
               /\ Finish("StructError")
               /\ UNCHANGED <<vol, per>>
          ELSE /\ log' = Append(log, Event("write", dev, StructPack(PackFmt, args)))
               /\ DeviceWrite(dev, StructPack(PackFmt, args))
               /\ pc' = "sc_return"
               /\ UNCHANGED <<sessions, outcome>>
    /\ UNCHANGED <<enumeration, cmd, serial_number, ov, audio_moth, gc_moth,
                   old_cfg, idx, read_data, returned, found, probe>>

\* return old_cfg
ScReturn ==
    /\ pc = "sc_return"
    /\ CloseSession(audio_moth.serial_number)
    /\ returned' = old_cfg
    /\ Finish("ok")
    /\ UNCHANGED <<enumeration, vol, per, cmd, serial_number, ov, audio_moth,
                   gc_moth, old_cfg, idx, read_data, found, probe>>

(***************************************************************************)
(* restore_config and persist_config                                       *)
(***************************************************************************)
CmLocate ==
    /\ pc = "cm_locate"
    /\ LET r == GetAudiomothDevice(enumeration, serial_number) IN
        IF r.err # "none"
        THEN /\ Finish(r.err)
             /\ UNCHANGED audio_moth
        ELSE /\ audio_moth' = r.dev
             /\ pc' = "cm_open"
             /\ UNCHANGED outcome
    /\ UNCHANGED <<enumeration, vol, per, cmd, serial_number, ov, gc_moth,
                   old_cfg, idx, sessions, read_data, log, returned, found, probe>>

CmOpen ==
    /\ pc = "cm_open"
    /\ sessions' = sessions \cup {audio_moth.serial_number}
    /\ log' = Append(log, Event("open", audio_moth.serial_number, <<>>))
    /\ pc' = "cm_write"
    /\ UNCHANGED <<enumeration, vol, per, cmd, serial_number, ov, audio_moth,
                   gc_moth, old_cfg, idx, read_data, outcome, returned, found, probe>>

\* variant: the two messages exchanged
CommandMessage_Swapped(c) ==
    IF c = "restore" THEN HID_PERSIST_MESSAGE ELSE HID_RESTORE_MESSAGE

\* variant: persist_config writes the restore message
CommandMessage_AlwaysRestore(c) == HID_RESTORE_MESSAGE

\* the message restore_config / persist_config writes
CommandMessage(c) == IF c = "restore" THEN HID_RESTORE_MESSAGE ELSE HID_PERSIST_MESSAGE

\* device.write(HID_RESTORE_MESSAGE) / device.write(HID_PERSIST_MESSAGE)
CmWrite ==
    /\ pc = "cm_write"
    /\ log' = Append(log, Event("write", audio_moth.serial_number, CommandMessage(cmd)))
    /\ DeviceWrite(audio_moth.serial_number, CommandMessage(cmd))
    /\ pc' = "cm_return"
    /\ UNCHANGED <<enumeration, cmd, serial_number, ov, audio_moth, gc_moth,
                   old_cfg, idx, sessions, read_data, outcome, returned, found, probe>>

\* the with block ends; the function returns None
CmReturn ==
    /\ pc = "cm_return"
    /\ CloseSession(audio_moth.serial_number)
    /\ Finish("ok")
    /\ UNCHANGED <<enumeration, vol, per, cmd, serial_number, ov, audio_moth,
                   gc_moth, old_cfg, idx, read_data, returned, found, probe>>

(***************************************************************************)
(* Specification                                                           *)
(***************************************************************************)
Next ==
    \/ Start
    \/ MothsLocate
    \/ GcLocate
    \/ GcOpen
    \/ GcWrite
    \/ GcRead
    \/ GcUnpack
    \/ ScLocate
    \/ ScLoop
    \/ ScOpen
    \/ ScPackWrite
    \/ ScReturn
    \/ CmLocate
    \/ CmOpen
    \/ CmWrite
    \/ CmReturn

Spec == Init /\ [][Next]_vars

(***************************************************************************)
(* _validate_parameter and the codec applied directly to bounded inputs    *)
(***************************************************************************)
ProbeValues == {-100, -1, 0, 1, 4, 5, 7, 100, 150, 4000, 4050, 4100, 4500, 8000,
                9000, 192000, 192100, 384000}

ProbeRates == {0, 1, 8000, 8201, 9000, 16000, 384000}

ProbeTags == {0, 1, 5, 255}

ProbeRecords ==
    [time : {0, 65536, 1700000000}, gain : {0, 4, 255}, clock_divider : {4, 256},
     acquisition_cycles : {16}, oversamplerate : {1}, samplerate : {8000, 384000},
     samplerate_divider : {1, 2}, lower_filter_freq : {0, 258, 65535, 65536},
     higher_filter_freq : {-100, 0, 4500}]

InitProbe ==
    /\ Init
    /\ enumeration = <<MothA>>
    /\ vol = [s \in MothSerials |-> DefaultCfg]
    /\ per = vol

\* _validate_parameter(parameter, value, sr)
ValidateStep ==
    /\ probe.kind = "none"
    /\ \E parameter \in Fields, value \in ProbeValues, sr \in ProbeRates :
        probe' = [kind |-> "validate", parameter |-> parameter, value |-> value,
                  sr |-> sr, accepted |-> ValidateParameter(parameter, value, sr)]
    /\ UNCHANGED <<enumeration, vol, per, pc, cmd, serial_number, ov, audio_moth,
                   gc_moth, old_cfg, idx, sessions, read_data, log, outcome,
                   returned, found>>

SpecValidate == InitProbe /\ [][ValidateStep]_vars

\* set_config's struct.pack of (tag, cfg), then get_config's struct.unpack and
\* AudioMothConfig(...) on the bytes
CodecStep ==
    /\ probe.kind = "none"
    /\ \E tag \in ProbeTags, c \in ProbeRecords :
        LET args == PackArgs(tag, c)
            ok == StructPackOk(PackFmt, args)
            data == IF ok THEN StructPack(PackFmt, args) ELSE <<>>
            uok == ok /\ StructUnpackOk(UnpackFmt, data)
            u == IF uok THEN StructUnpack(UnpackFmt, data) ELSE <<>>
        IN probe' = [kind |-> "codec", tag |-> tag, cfg |-> c, packed |-> ok,
                     data |-> data, unpacked |-> uok,
                     rtag |-> IF uok THEN u[1] ELSE -1,
                     rcfg |-> IF uok THEN ConfigOf(u) ELSE NoCfg]
    /\ UNCHANGED <<enumeration, vol, per, pc, cmd, serial_number, ov, audio_moth,
                   gc_moth, old_cfg, idx, sessions, read_data, log, outcome,
                   returned, found>>

SpecCodec == InitProbe /\ [][CodecStep]_vars

(***************************************************************************)
(* Devices plugged in and out while set_config runs                        *)
(***************************************************************************)
\* hid.enumerate() answers differently at line 56 when called from get_config
\* (line 146) than it did when called from set_config (line 145): descriptors
\* were added, removed or reordered in between.  The device set_config has
\* located stays attached, so that hid.Device at line 157 finds it.
Replug ==
    /\ pc = "gc_locate"
    /\ cmd = "set"
    /\ \E e \in Enumerations :
        /\ e # enumeration
        /\ \E i \in 1..Len(e) : e[i] = audio_moth
        /\ enumeration' = e
    /\ UNCHANGED <<vol, per, pc, cmd, serial_number, ov, audio_moth, gc_moth,
                   old_cfg, idx, sessions, read_data, log, outcome, returned,
                   found, probe>>

NextHotplug == Next \/ Replug

SpecHotplug == Init /\ [][NextHotplug]_vars

(***************************************************************************)
(* The tool run again and again on one device                              *)
(***************************************************************************)
SeqCommands == {"get", "set", "restore", "persist"}

\* the set calls of the sequence: three that pass validation, one that fails
SeqOverrides ==
    {<<>>, [gain |-> 3], [gain |-> 7], [samplerate |-> 48000], [clock_divider |-> 8]}

\* one AudioMoth attached; what it holds is as in Init
InitSeq == Init /\ enumeration = <<MothA>>

\* main is run again once the previous run has ended
StartAgain ==
    /\ pc \in {"idle", "done"}
    /\ Invoke(SeqCommands, {NoSerial}, SeqOverrides)

NextSeq ==
    \/ StartAgain
    \/ GcLocate
    \/ GcOpen
    \/ GcWrite
    \/ GcRead
    \/ GcUnpack
    \/ ScLocate
    \/ ScLoop
    \/ ScOpen
    \/ ScPackWrite
    \/ ScReturn
    \/ CmLocate
    \/ CmOpen
    \/ CmWrite
    \/ CmReturn

SpecSeq == InitSeq /\ [][NextSeq]_vars

(***************************************************************************)
(* Properties                                                              *)
(***************************************************************************)
\* the rejection condition of the validator, per field
Rejects(field, value, sr) ==
    \/ field = "gain" /\ value \notin {0, 1, 2, 3, 4}
    \/ field = "samplerate"
         /\ value \notin {8000, 16000, 32000, 48000, 96000, 192000, 250000, 384000}
    \/ field \in {"lower_filter_freq", "higher_filter_freq"}
         /\ ~(value % 100 = 0 /\ value <= sr \div 2)

IsWrite(e) == e.ev = "write"
IsRead(e) == e.ev = "read"

\* the data of the write calls of the invocation, in order
WriteData(l) == LET w == SelectSeq(l, IsWrite) IN [i \in 1..Len(w) |-> w[i].data]

\* positions of the 18-byte writes in the log
ConfigWrites(l) == {i \in 1..Len(l) : l[i].ev = "write" /\ Len(l[i].data) = 18}

\* get_config received 18 bytes under the READ tag
ReadOk == Len(read_data) = 18 /\ read_data[1] = 5

\* the record the device sent
BaseCfg == WireRecord(read_data)

\* the sample rate the call's filter frequencies are to be measured against
ClaimSr(base) == IF "samplerate" \in DOMAIN ov THEN ov["samplerate"] ELSE base.samplerate

\* some override of the call is invalid, the device having sent base
HasInvalid(base) == \E p \in DOMAIN ov : Rejects(p, ov[p], ClaimSr(base))

\* some override of the call is invalid whatever the device holds
InvalidWhateverDevice ==
    \E p \in DOMAIN ov :
        \/ p \in {"gain", "samplerate"} /\ Rejects(p, ov[p], 0)
        \/ p \in {"lower_filter_freq", "higher_filter_freq"}
             /\ "samplerate" \in DOMAIN ov /\ Rejects(p, ov[p], ov["samplerate"])

\* serials of the AudioMoth descriptors of the enumeration
EnumeratedMoths ==
    {enumeration[i].serial_number : i \in {k \in 1..Len(enumeration) : IsAudioMoth(enumeration[k])}}

\* C1: with AudioMoths of pairwise distinct serials enumerated, find(serial=S)
\* for the serial S of one of them returns the descriptor whose serial is S,
\* wherever it stands in the enumeration.
C1_FindBySerial ==
    (cmd = "moths" /\ pc = "done" /\ serial_number \in EnumeratedMoths)
        => (outcome = "ok" /\ found.serial_number = serial_number)

\* C2 as claimed: set_config with an invalid override raises the validation
\* error and the invocation makes no transport write at all.
C2_ZeroWrites ==
    (cmd = "set" /\ pc = "done" /\ ReadOk /\ HasInvalid(BaseCfg))
        => (outcome = "ValueError" /\ WriteData(log) = <<>>)

\* C2 amended: set_config with an invalid override never succeeds and writes
\* no CONFIGURATION message; the only transport write of the invocation is the
\* single byte READ [0x05] of the initial get_config, and when that read
\* succeeded the call ends with the validation error and returns no record.
C2_OnlyReadWritten ==
    (cmd = "set" /\ (InvalidWhateverDevice \/ (ReadOk /\ HasInvalid(BaseCfg))))
        => /\ outcome # "ok"
           /\ returned = NoCfg
           /\ WriteData(log) \in {<<>>, <<(<<5>>)>>}
           /\ (pc = "done" /\ ReadOk) =>
                  (outcome = "ValueError" /\ WriteData(log) = <<(<<5>>)>>)

C2_Witness ==
    /\ cmd = "set" /\ pc = "done" /\ outcome = "ValueError"
    /\ DOMAIN ov = {"gain"} /\ ov["gain"] = 7
    /\ WriteData(log) = <<(<<5>>)>>

\* the device set_config addresses, and whether the call carries an override
\* that is invalid for what that device holds
Target == GetAudiomothDevice(enumeration, serial_number)

InvalidSetCall ==
    /\ cmd = "set"
    /\ Target.err = "none"
    /\ HasInvalid(vol[Target.dev.serial_number])

\* C3: all-or-nothing.  In a set_config call with an invalid override, at
\* whatever position among the valid ones, no step writes an 18-byte
\* CONFIGURATION message and no step changes a device's volatile configuration.
C3_AllOrNothing ==
    [][InvalidSetCall => (vol' = vol /\ ConfigWrites(log') = {})]_vars

C3_Witness ==
    /\ InvalidSetCall /\ pc = "done" /\ outcome = "ValueError"
    /\ idx > 1 /\ old_cfg # BaseCfg
    /\ vol[gc_moth.serial_number] = BaseCfg

\* C4: the filter frequencies of a call are validated against the samplerate
\* of the same call when given, else against the samplerate read from the
\* device: the call is rejected exactly when some override is invalid on that
\* measure, whatever the order; samplerate=8000 with higher_filter_freq=4500 is
\* rejected whatever the device held.
C4_CrossField ==
    (cmd = "set" /\ pc = "done" /\ ReadOk)
        => /\ (outcome = "ValueError") <=> HasInvalid(BaseCfg)
           /\ ("samplerate" \in DOMAIN ov /\ ov["samplerate"] = 8000
                 /\ "higher_filter_freq" \in DOMAIN ov /\ ov["higher_filter_freq"] = 4500)
                => outcome = "ValueError"

C4_Witness ==
    /\ cmd = "set" /\ pc = "done" /\ ReadOk /\ outcome = "ValueError"
    /\ DOMAIN ov = {"samplerate", "higher_filter_freq"}
    /\ ov["samplerate"] = 8000 /\ ov["higher_filter_freq"] = 4500
    /\ BaseCfg.samplerate = 384000

\* the record of the last message written
Transmitted == WireRecord(log[CHOOSE i \in ConfigWrites(log) : TRUE].data)

\* C5: after a successful set_config every field of the transmitted record is
\* the override when one was given and the value read from the device
\* otherwise, and the record returned is the record transmitted.
C5_MergeFrame ==
    (cmd = "set" /\ pc = "done" /\ outcome = "ok")
        => /\ ConfigWrites(log) # {}
           /\ \A f \in Fields :
                  Transmitted[f] = IF f \in DOMAIN ov THEN ov[f] ELSE BaseCfg[f]
           /\ returned = Transmitted

C5_Witness ==
    /\ cmd = "set" /\ pc = "done" /\ outcome = "ok"
    /\ DOMAIN ov = {"gain"} /\ ov["gain"] = 3
    /\ BaseCfg.gain = 1 /\ BaseCfg.samplerate = 8000
    /\ returned = [BaseCfg EXCEPT !.gain = 3]

\* C6: a successful set_config makes exactly one 18-byte write, its first
\* byte is the CONFIGURATION tag 0x01, and no read follows an 18-byte write.
C6_OneConfigWrite ==
    /\ \A i \in ConfigWrites(log) : \A j \in i..Len(log) : log[j].ev # "read"
    /\ (cmd = "set" /\ pc = "done" /\ outcome = "ok")
        => /\ Cardinality(ConfigWrites(log)) = 1
           /\ \A i \in ConfigWrites(log) : log[i].data[1] = 1

C6_Witness ==
    /\ cmd = "set" /\ pc = "done" /\ outcome = "ok"
    /\ Cardinality(ConfigWrites(log)) = 1
    /\ Len(SelectSeq(log, IsRead)) = 1

\* C7: persist_config makes exactly one write, the single byte [0x06], and
\* restore_config exactly one write, the single byte [0x04]; neither reads
\* nor writes anything else.
C7_PersistRestore ==
    (cmd \in {"persist", "restore"})
        => /\ SelectSeq(log, IsRead) = <<>>
           /\ WriteData(log) \in {<<>>, <<(IF cmd = "persist" THEN <<6>> ELSE <<4>>)>>}
           /\ (pc = "done" /\ outcome = "ok") => Len(WriteData(log)) = 1

C7_Witness ==
    /\ cmd = "persist" /\ pc = "done" /\ outcome = "ok"
    /\ WriteData(log) = <<(<<6>>)>>

\* C8: get_config writes the single byte READ [0x05], then reads; of an 18-byte
\* response whose first byte is not 0x05 it makes an error and no record, of
\* one whose first byte is 0x05 the record of the other 17 bytes.  In
\* set_config no 18-byte write follows the failure.
C8_ReadConfig ==
    /\ (cmd \in {"get", "set"} /\ read_data # <<>>)
         => /\ SelectSeq(log, IsRead) = <<Event("read", gc_moth.serial_number, read_data)>>
            /\ \E i \in 1..Len(log) :
                 /\ log[i].ev = "read"
                 /\ SelectSeq(SubSeq(log, 1, i), IsWrite)
                      = <<Event("write", gc_moth.serial_number, <<5>>)>>
    /\ (cmd = "get" /\ pc = "done" /\ Len(read_data) = 18)
         => IF read_data[1] # 5
            THEN outcome = "ReadFailed" /\ returned = NoCfg
            ELSE outcome = "ok" /\ returned = WireRecord(read_data)
    /\ (cmd = "get" /\ pc = "done") => WriteData(log) \in {<<>>, <<(<<5>>)>>}
    /\ (cmd = "set" /\ Len(read_data) = 18 /\ read_data[1] # 5)
         => /\ ConfigWrites(log) = {}
            /\ pc \in {"gc_unpack", "done"}
            /\ pc = "done" => (outcome = "ReadFailed" /\ returned = NoCfg)

C8_Witness ==
    /\ cmd = "set" /\ pc = "done" /\ outcome = "ReadFailed"
    /\ Len(read_data) = 18 /\ read_data[1] # 5
    /\ ov # <<>> /\ ~InvalidWhateverDevice

\* every field within its declared width (a u32 holds every value of the model)
FitsWidths(c) ==
    /\ c.time >= 0 /\ c.samplerate >= 0
    /\ \A f \in {"gain", "clock_divider", "acquisition_cycles", "oversamplerate",
                 "samplerate_divider"} : c[f] \in 0..255
    /\ c.lower_filter_freq \in 0..65535 /\ c.higher_filter_freq \in 0..65535

\* C9: for every tag byte and every record whose fields fit their widths, the
\* pack of set_config gives the 18 bytes of the wire layout, and the decoder
\* of get_config gives back the same tag and the same nine fields.
C9_RoundTrip ==
    (probe.kind = "codec" /\ probe.tag \in 0..255 /\ FitsWidths(probe.cfg))
        => /\ probe.packed /\ Len(probe.data) = 18
           /\ probe.data = WireBytes(probe.tag, probe.cfg)
           /\ probe.unpacked
           /\ probe.rtag = probe.tag
           /\ probe.rcfg = probe.cfg

C9_Witness ==
    /\ probe.kind = "codec" /\ FitsWidths(probe.cfg)
    /\ probe.tag = 255 /\ probe.cfg.time = 1700000000
    /\ probe.cfg.lower_filter_freq = 65535 /\ probe.cfg.higher_filter_freq = 4500
    /\ probe.rcfg = probe.cfg

\* C10: _validate_parameter rejects exactly when the field is gain and the
\* value is not in {0..4}, or the field is samplerate and the value is not in
\* the enumerated set, or the field is a filter frequency and the value is not
\* a multiple of 100 at most sample_rate div 2; every value of the other
\* fields is accepted.
C10_ValidatorExact ==
    (probe.kind = "validate")
        => (probe.accepted <=> ~Rejects(probe.parameter, probe.value, probe.sr))

C10_Witness ==
    /\ probe.kind = "validate" /\ probe.parameter = "higher_filter_freq"
    /\ probe.value = 4100 /\ probe.sr = 8201 /\ probe.accepted

\* C11: find fails exactly when no enumerated descriptor is an AudioMoth, or a
\* serial is given and no AudioMoth has that serial, and then returns no
\* descriptor; a command that ends with this failure has opened no session and
\* made no transport write.
C11_NotFound ==
    /\ (cmd = "moths" /\ pc = "done")
         => /\ outcome = "NoAudioMoth" <=> EnumeratedMoths = {}
            /\ outcome = "NoSuchSerial"
                 <=> (EnumeratedMoths # {} /\ serial_number # NoSerial
                        /\ serial_number \notin EnumeratedMoths)
            /\ outcome \in {"ok", "NoAudioMoth", "NoSuchSerial"}
            /\ outcome # "ok" => found = NoDevice
    /\ outcome \in {"NoAudioMoth", "NoSuchSerial"}
         => /\ log = <<>> /\ sessions = {}
            /\ EnumeratedMoths = {}
                 \/ (serial_number # NoSerial /\ serial_number \notin EnumeratedMoths)
    /\ (pc = "done" /\ cmd \in {"get", "set", "restore", "persist"} /\ log = <<>>)
         => outcome \in {"NoAudioMoth", "NoSuchSerial", "TypeError"}

C11_Witness ==
    /\ cmd = "set" /\ pc = "done" /\ outcome = "NoSuchSerial"
    /\ EnumeratedMoths # {} /\ ov # <<>> /\ log = <<>>

\* position of the first AudioMoth descriptor of the enumeration
FirstMothIndex ==
    CHOOSE i \in 1..Len(enumeration) :
        /\ enumeration[i].product_string = "AudioMoth"
        /\ \A j \in 1..(i - 1) : enumeration[j].product_string # "AudioMoth"

\* C12: with no serial given and at least one AudioMoth enumerated, find
\* returns the first AudioMoth descriptor in enumeration order, the other
\* descriptors before it skipped, and does not fail.
C12_FirstWithoutSerial ==
    (cmd = "moths" /\ pc = "done" /\ serial_number = NoSerial /\ EnumeratedMoths # {})
        => (outcome = "ok" /\ found = enumeration[FirstMothIndex])

C12_Witness ==
    /\ cmd = "moths" /\ pc = "done" /\ serial_number = NoSerial
    /\ Len(enumeration) = 2 /\ ~IsAudioMoth(enumeration[1])
    /\ outcome = "ok" /\ found = enumeration[2]

\* position of a keyword argument in the loop of set_config
Pos(p) == CHOOSE i \in 1..Len(ParamOrder) : ParamOrder[i] = p

\* set_config holds the record read from the device
InLoop == cmd = "set" /\ old_cfg # NoCfg

\* C13 as stated: no override is applied to the base record before every
\* present override has passed validation.
C13_ValidateThenApply ==
    (InLoop /\ \E p \in DOMAIN ov : Pos(p) < idx)
        => \A p \in DOMAIN ov : Pos(p) < idx

\* C13, amended: each override is applied to the local copy of the base record
\* as soon as it has itself passed validation, in parameter order, so that the
\* copy holds the overrides validated so far and the values read otherwise;
\* the write session is opened only when every present override has passed.
C13_ApplyAsValidated ==
    InLoop =>
        /\ \A f \in Fields :
              old_cfg[f] = IF f \in DOMAIN ov /\ Pos(f) < idx THEN ov[f] ELSE BaseCfg[f]
        /\ \A p \in DOMAIN ov :
              Pos(p) < idx => ~Rejects(p, ov[p], ClaimSr(BaseCfg))
        /\ (Len(log) > 4 \/ pc \in {"sc_pack", "sc_return"})
              => /\ \A p \in DOMAIN ov : Pos(p) < idx
                 /\ ~HasInvalid(BaseCfg)

C13_Witness ==
    /\ InLoop /\ pc = "sc_loop" /\ idx > 1 /\ old_cfg # BaseCfg
    /\ \E p \in DOMAIN ov : Pos(p) >= idx /\ Rejects(p, ov[p], ClaimSr(BaseCfg))

\* C14: encoding is total.  A set_config call whose overrides all pass
\* validation, the device having answered the read, encodes its merged record
\* to 18 bytes without error and reaches the transport write.
C14_EncodeTotal ==
    (cmd = "set" /\ pc = "done" /\ ReadOk /\ ~HasInvalid(BaseCfg))
        => /\ outcome = "ok"
           /\ \E i \in 1..Len(log) : log[i].ev = "write" /\ Len(log[i].data) = 18

\* the kinds of the transport events of the invocation, in order
Kinds(l) == [i \in 1..Len(l) |-> l[i].ev]

IsPrefix(a, b) == Len(a) <= Len(b) /\ SubSeq(b, 1, Len(a)) = a

\* the transport events of a set_config call that succeeds
SetSteps == <<"open", "write", "read", "close", "open", "write", "close">>

\* C15: a CONFIGURATION write happens only after the device was located, the
\* current configuration was read (READ written, 18 bytes read, tag checked)
\* and every present override was validated, in that order; a call that fails
\* ends there, its transport events being those up to the failing step and the
\* release of the session; no write or read is made twice.
C15_StepOrder ==
    cmd = "set" =>
        /\ \/ IsPrefix(Kinds(log), SetSteps)
           \/ Kinds(log) = SubSeq(SetSteps, 1, 5) \o <<"close">>
        /\ ConfigWrites(log) # {}
             => /\ ConfigWrites(log) = {6}
                /\ audio_moth # NoDevice /\ gc_moth # NoDevice
                /\ log[2].data = <<5>>
                /\ log[3].data = read_data /\ ReadOk
                /\ ~HasInvalid(BaseCfg)
        /\ (pc = "done" /\ outcome # "ok")
             => /\ ConfigWrites(log) = {}
                /\ sessions = {}
                /\ Kinds(log) \in {<<>>, SubSeq(SetSteps, 1, 4),
                                   SubSeq(SetSteps, 1, 5) \o <<"close">>}
                /\ outcome \in {"NoAudioMoth", "NoSuchSerial", "TypeError"}
                     <=> log = <<>>
                /\ outcome = "ValueError" => Len(log) = 4

C15_Witness ==
    /\ cmd = "set" /\ pc = "done" /\ outcome = "ok"
    /\ Kinds(log) = SetSteps
    /\ Cardinality(DOMAIN ov) = 2

\* the sessions of the log that were released: an open and the next close
ClosedSessions(l) ==
    {<<i, j>> \in (1..Len(l)) \X (1..Len(l)) :
        /\ i < j /\ l[i].ev = "open" /\ l[j].ev = "close"
        /\ \A k \in (i + 1)..(j - 1) : l[k].ev \notin {"open", "close"}}

CountIn(l, i, j, kind) == Cardinality({k \in i..j : l[k].ev = kind})

\* C16: every session opened is released when the operation ends, on every
\* exit path; no two sessions are ever open at once; each session carries
\* exactly one write, and exactly one read when it is the session of get_config.
C16_ScopedSessions ==
    /\ Cardinality(sessions) <= 1
    /\ pc = "done" => sessions = {}
    /\ \A i \in 1..Len(log) :
          log[i].ev = "open" => \A k \in 1..(i - 1) :
              log[k].ev = "open" => \E j \in (k + 1)..(i - 1) : log[j].ev = "close"
    /\ \A s \in ClosedSessions(log) :
          /\ CountIn(log, s[1], s[2], "write") = 1
          /\ CountIn(log, s[1], s[2], "read")
               = IF cmd \in {"get", "set"} /\ s[1] = 1 THEN 1 ELSE 0

\* the constraints of a configuration record
ValidRecord(c) ==
    /\ c.gain \in {0, 1, 2, 3, 4}
    /\ c.samplerate \in {8000, 16000, 32000, 48000, 96000, 192000, 250000, 384000}
    /\ \A f \in {"lower_filter_freq", "higher_filter_freq"} :
          c[f] % 100 = 0 /\ c[f] <= c.samplerate \div 2

\* C17: when the configuration read from the device satisfies the record
\* constraints, so does every record set_config transmits, for every
\* combination of overrides that passes validation, an override of the
\* samplerate alone included.
C17_TransmittedValid ==
    (cmd = "set" /\ ConfigWrites(log) # {} /\ ValidRecord(BaseCfg))
        => ValidRecord(Transmitted)

\* C18: within one set_config call the device whose configuration is read as
\* the base of the merge is the device that receives the CONFIGURATION write,
\* also when the enumeration changes between the two locate calls.
C18_SameDevice ==
    (cmd = "set" /\ ConfigWrites(log) # {})
        => \A i \in 1..Len(log), j \in ConfigWrites(log) :
              log[i].ev = "read" => log[i].dev = log[j].dev

\* C19: over any sequence of get, set, persist and restore runs on one device,
\* get and set never write the PERSIST (0x06) or RESTORE (0x04) message; the
\* persistent configuration changes only at the write of a persist run, where
\* it becomes the current volatile configuration; the write of a restore run
\* makes the volatile configuration equal to the persistent one and leaves the
\* persistent one alone, so that a set followed by a restore with no persist
\* in between leaves no trace.
C19_StorageTiers ==
    /\ [](cmd \in {"get", "set"}
            => \A i \in 1..Len(log) :
                  log[i].ev = "write" => log[i].data[1] \notin {4, 6})
    /\ [][per' # per => (cmd = "persist" /\ pc = "cm_write")]_vars
    /\ [][(cmd = "persist" /\ pc = "cm_write")
            => (per'["A"] = vol["A"] /\ vol' = vol)]_vars
    /\ [][(cmd = "restore" /\ pc = "cm_write")
            => (vol'["A"] = per["A"] /\ per' = per)]_vars
    /\ []((cmd = "restore" /\ pc = "done" /\ outcome = "ok") => vol["A"] = per["A"])

\* a set run has put gain 3 into the volatile configuration, no persist run
\* has stored it, and a restore run is at its write
C19_Witness ==
    /\ cmd = "restore" /\ pc = "cm_write"
    /\ vol["A"].gain = 3 /\ per["A"].gain # 3

\* C20 as stated: set accepts an override of time as of the other eight
\* fields: the call goes on to the device, and when it succeeds the override is
\* the time field of the record transmitted.
C20_TimeOverride ==
    (cmd = "set" /\ pc = "done" /\ DOMAIN ov = {"time"} /\ Target.err = "none")
        => /\ outcome \in {"ok", "ReadFailed", "StructError"}
           /\ outcome = "ok" => Transmitted.time = ov["time"]

\* C20, amended: set accepts an override for each of the eight fields other
\* than time.  A call that names time is refused before anything is located,
\* read or written; the time field of every record transmitted is the time
\* read from the device, and each override given is the value of its field.
C20_EightOverrides ==
    /\ (cmd = "set" /\ "time" \in DOMAIN ov)
         => (pc = "done" /\ outcome = "TypeError" /\ log = <<>>
               /\ audio_moth = NoDevice /\ sessions = {})
    /\ (cmd = "set" /\ ConfigWrites(log) # {})
         => /\ Transmitted.time = BaseCfg.time
            /\ \A p \in DOMAIN ov : p # "time" /\ Transmitted[p] = ov[p]
    /\ (cmd = "set" /\ pc = "done" /\ outcome = "TypeError")
         => "time" \in DOMAIN ov

C20_Witness ==
    /\ cmd = "set" /\ pc = "done" /\ outcome = "TypeError"
    /\ DOMAIN ov = {"time", "gain"} /\ ov["gain"] = 3
    /\ Target.err = "none"

====
